---- MODULE Spec2Model ----
(***************************************************************************)
(* Model of the `connect` subcommand of the geph4 client:                  *)
(*   src/src/config.rs   INIT_CONFIG, override_config, CONFIG              *)
(*   src/src/connect.rs  the lazily initialised globals CONNECT_CONFIG,    *)
(*                       CONNINFO_STORE, SHOULD_USE_BRIDGES, TUNNEL and     *)
(*                       the top-level CONNECT_TASK with its subtasks.      *)
(* Every once_cell Lazy is a cell with the states uninit / running / done; *)
(* the closure of a cell runs on the thread that first dereferences it and *)
(* every other accessor blocks until the cell is done.                      *)
(***************************************************************************)
EXTENDS Integers, Sequences, FiniteSets, TLC

\* ------------------------------------------------------------------ bounds
\* longest forward_ports list of a configuration
MaxForwards == 2
\* number of override_config calls made before CONFIG is first referenced
MaxOverrides == 2

\* ------------------------------------------------------- configuration data
\* Option<String> override_connect: NoUrl is None
NoUrl == "none"
URLs == {"pk1@host1", "pk2@host2"}

\* a forward_ports entry is a String: either of the form host:port:::host:port
\* ("ok") or malformed ("bad"); the type keeps both
FwdEntries == {"ok", "bad"}
FwdLists == UNION {[1..n -> FwdEntries] : n \in 0..MaxForwards}

AuthKinds == {"AuthPassword", "AuthKeypair"}

\* the fields of ConnectOpt that connect.rs reads
Opts == [use_bridges : BOOLEAN,
         override_connect : {NoUrl} \cup URLs,
         forward_ports : FwdLists,
         auth_kind : AuthKinds]

\* the command lines Opt::from_args parses: every combination of the options
\* with at most one forwarder, and the longer forward_ports lists with the
\* other options at their defaults
ArgOpts == {o \in Opts : Len(o.forward_ports) > 1 =>
                           /\ ~o.use_bridges
                           /\ o.override_connect = NoUrl
                           /\ o.auth_kind = "AuthPassword"}

\* the empty OnceCell / a Lazy value that is not there yet
NoOpt == [none |-> TRUE]

\* the configurations handed to override_config: a program that embeds the
\* client passes its own Opt; two settings of use_bridges, with and without
\* an override URL
OverrideOpts == {o \in Opts : o.forward_ports = <<>> /\ o.auth_kind = "AuthPassword"
                              /\ o.override_connect # "pk2@host2"}

\* EndpointSource
Independent(url) == [kind |-> "Independent", endpoint |-> url]
Binder(bridges) == [kind |-> "Binder", cstore |-> "CONNINFO_STORE", use_bridges |-> bridges]
NoTunnel == [kind |-> "none"]

Cells == {"CONFIG", "CONNECT_CONFIG", "CONNINFO_STORE", "SHOULD_USE_BRIDGES", "TUNNEL"}

ProbeOutcomes == {"timeout", "error", "hostile", "clear"}

VARIABLES
  initConfig,     \* INIT_CONFIG: NoOpt while the OnceCell is empty
  fromArgs,       \* number of Opt::from_args invocations
  earlyOverrides, \* history: arguments of the override_config calls that
                  \* completed before CONFIG was first referenced, in call order
  lazy,           \* state of every Lazy cell
  runs,           \* how often the closure of every cell was started
  config,         \* value of CONFIG
  connectConfig,  \* value of CONNECT_CONFIG
  storePc,        \* position of the CONNINFO_STORE closure
  probePc,        \* position of the SHOULD_USE_BRIDGES closure
  probe,          \* outcome of test_china().timeout(2 s), "none" before
  useBridges,     \* value of SHOULD_USE_BRIDGES
  tunnelPc,       \* position of the TUNNEL closure
  tunnel,         \* value of TUNNEL: the EndpointSource it was built from
  pc,             \* position of CONNECT_TASK
  http, socks5, dns,  \* the spawned front-end tasks
  refresh,        \* position of the refresh task
  fwd,            \* state of every port forwarder task
  call,           \* a single call of one of the functions of config.rs,
                  \* with its arguments; [fn |-> "none"] in the connect run
  ret,            \* where that call stands and what it has computed
  dirs            \* the directories that exist in the file system

vars == <<initConfig, fromArgs, earlyOverrides, lazy, runs, config,
          connectConfig, storePc, probePc, probe, useBridges, tunnelPc, tunnel,
          pc, http, socks5, dns, refresh, fwd, call, ret, dirs>>

cfgVars == <<initConfig, fromArgs, earlyOverrides, config, connectConfig>>
cellVars == <<lazy, runs>>
storeVars == <<storePc>>
probeVars == <<probePc, probe, useBridges>>
tunnelVars == <<tunnelPc, tunnel>>
taskVars == <<pc, http, socks5, dns, refresh, fwd>>
callVars == <<call, ret, dirs>>

\* no call of config.rs under way
NoCall == [fn |-> "none"]
NoRet == [pc |-> "none"]

\* the statics before their first use
StaticsInit ==
  /\ initConfig = NoOpt
  /\ fromArgs = 0
  /\ earlyOverrides = <<>>
  /\ lazy = [c \in Cells |-> "uninit"]
  /\ runs = [c \in Cells |-> 0]
  /\ config = NoOpt
  /\ connectConfig = NoOpt
  /\ storePc = "idle"
  /\ probePc = "idle"
  /\ probe = "none"
  /\ useBridges = FALSE
  /\ tunnelPc = "idle"
  /\ tunnel = NoTunnel
  /\ pc = "unspawned"
  /\ http = "none"
  /\ socks5 = "none"
  /\ dns = "none"
  /\ refresh = "none"
  /\ fwd = <<>>

Init ==
  /\ StaticsInit
  /\ call = NoCall
  /\ ret = NoRet
  /\ dirs = {}


\* ------------------------------ the values the functions of config.rs see
\* Strings that are hashed or split are sequences of bytes.
\* longest username and password
MaxStr == 1
\* the bytes of "a" and "b"
NameBytes == {97, 98}
RECURSIVE StrsUpTo(_, _)
StrsUpTo(alphabet, n) ==
  IF n = 0 THEN {<<>>}
  ELSE LET shorter == StrsUpTo(alphabet, n - 1)
       IN  shorter \cup {Append(s, b) : s \in shorter, b \in alphabet}
Names == StrsUpTo(NameBytes, MaxStr)
\* "/k1" and "/k2"
SkPaths == {<<47, 107, 49>>, <<47, 107, 50>>}
\* what a secret key file holds: the hex of a signing key, or nothing usable
SecretKeys == {"skA", "skB"}
KeyFiles == SecretKeys \cup {"unreadable"}
FileMaps == [SkPaths -> KeyFiles]
\* enum AuthKind
AuthValues ==
  [tag : {"AuthPassword"}, username : Names, password : Names]
    \cup [tag : {"AuthKeypair"}, sk_path : SkPaths]
\* --credential-cache
CacheRoots == {"cache", "tmp"}

\* a string as stdcode writes it: its length, then its bytes
LenPrefixed(str) == <<Len(str)>> \o str
\* auth_kind.stdcode(): the index of the variant, then its fields in order
Stdcode(a) ==
  IF a.tag = "AuthPassword"
  THEN <<0>> \o LenPrefixed(a.username) \o LenPrefixed(a.password)
  ELSE <<1>> \o LenPrefixed(a.sk_path)
\* blake3::hash, taken as collision free: the digest stands for its input
Blake3(bytes) == bytes
\* hex::encode: two digits, high then low, for every byte
RECURSIVE HexEncode(_)
HexEncode(bytes) ==
  IF bytes = <<>> THEN <<>>
  ELSE <<Head(bytes) \div 16, Head(bytes) % 16>> \o HexEncode(Tail(bytes))
user_cache_key(a) == HexEncode(Blake3(Stdcode(a)))

\* the closure with key failures handed back as errors (? where the
\* closure has unwrap)
GetCredsReturnsErr(a, files) ==
  IF a.tag = "AuthPassword"
  THEN [out |-> "creds", kind |-> "Password", id |-> <<a.username, a.password>>]
  ELSE IF files[a.sk_path] \in SecretKeys
       THEN [out |-> "creds", kind |-> "Keypair", id |-> <<files[a.sk_path]>>]
       ELSE [out |-> "err"]

\* the get_creds closure of get_conninfo_store: the password pair as it is;
\* for a keypair the key file is read and decoded, each step unwrapped
GetCreds(a, files) ==
  IF a.tag = "AuthPassword"
  THEN [out |-> "creds", kind |-> "Password", id |-> <<a.username, a.password>>]
  ELSE IF files[a.sk_path] \in SecretKeys
       THEN [out |-> "creds", kind |-> "Keypair", id |-> <<files[a.sk_path]>>]
       ELSE [out |-> "panic"]

\* ------------------------------------------------------------ config.rs
\* a cell that keeps the last value written instead of the first
SetOnceLastWins(cell, v) == v

\* OnceCell::get_or_init: the closure's value is stored only in an empty cell
SetOnce(cell, v) == IF cell = NoOpt THEN v ELSE cell

\* pub fn override_config(opt: Opt)
override_config(opt) ==
  /\ lazy["CONFIG"] = "uninit" => Len(earlyOverrides) < MaxOverrides
  /\ initConfig' = SetOnce(initConfig, opt)
  /\ earlyOverrides' = IF lazy["CONFIG"] = "uninit"
                         THEN Append(earlyOverrides, opt)
                         ELSE earlyOverrides
  /\ UNCHANGED <<fromArgs, config, connectConfig>>
  /\ UNCHANGED <<cellVars, storeVars, probeVars, tunnelVars, taskVars>>
  /\ UNCHANGED callVars

\* --------------------------------------------------------- the Lazy cells
\* the code positions that dereference each cell; TUNNEL is pub and is
\* dereferenced by the running proxy loops, which carry their traffic over it
Accessing(c) ==
  CASE c = "CONFIG" -> lazy["CONNECT_CONFIG"] = "running" \/ storePc = "config"
    [] c = "CONNECT_CONFIG" -> \/ pc = "log"
                               \/ tunnelPc = "config"
                               \/ (probePc = "match" /\ probe = "clear")
    [] c = "CONNINFO_STORE" -> refresh = "store" \/ tunnelPc = "cstore"
    [] c = "SHOULD_USE_BRIDGES" -> tunnelPc = "bridges"
    [] c = "TUNNEL" -> socks5 = "running" \/ dns = "running"

\* an initialisation check without the Once: every accessor that finds the
\* cell not yet done runs the closure
MustInitRacy(c) == lazy[c] # "done"

\* no memoisation: every dereference runs the closure
MustInitEveryRead(c) == TRUE

\* Lazy::force runs the closure only for the first accessor: the cell's
\* Once lets exactly one thread in and parks the others
MustInit(c) == lazy[c] = "uninit"

\* an accessor starts the closure of cell c
Force(c) ==
  /\ Accessing(c)
  /\ MustInit(c)
  /\ lazy' = [lazy EXCEPT ![c] = "running"]
  /\ runs' = [runs EXCEPT ![c] = @ + 1]

\* the closure of cell c has returned and its value is published
Publish(c) == lazy' = [lazy EXCEPT ![c] = "done"] /\ UNCHANGED runs

\* CONFIG: first dereference
ForceConfig ==
  /\ Force("CONFIG")
  /\ UNCHANGED <<cfgVars, storeVars, probeVars, tunnelVars, taskVars>>
  /\ UNCHANGED callVars

\* CONFIG = Lazy::new(|| INIT_CONFIG.get_or_init(Opt::from_args).clone())
InitConfig ==
  /\ lazy["CONFIG"] = "running"
  /\ IF initConfig = NoOpt
       THEN \E parsed \in ArgOpts :
              /\ initConfig' = SetOnce(initConfig, parsed)
              /\ fromArgs' = fromArgs + 1
       ELSE UNCHANGED <<initConfig, fromArgs>>
  /\ config' = initConfig'
  /\ Publish("CONFIG")
  /\ UNCHANGED <<earlyOverrides, connectConfig>>
  /\ UNCHANGED <<storeVars, probeVars, tunnelVars, taskVars>>
  /\ UNCHANGED callVars

\* CONNECT_CONFIG: first dereference
ForceConnectConfig ==
  /\ Force("CONNECT_CONFIG")
  /\ UNCHANGED <<cfgVars, storeVars, probeVars, tunnelVars, taskVars>>
  /\ UNCHANGED callVars

\* CONNECT_CONFIG = Lazy::new(|| match CONFIG.deref() { Opt::Connect(c) => c.clone() })
InitConnectConfig ==
  /\ lazy["CONNECT_CONFIG"] = "running"
  /\ lazy["CONFIG"] = "done"
  /\ connectConfig' = config
  /\ Publish("CONNECT_CONFIG")
  /\ UNCHANGED <<initConfig, fromArgs, earlyOverrides, config>>
  /\ UNCHANGED <<storeVars, probeVars, tunnelVars, taskVars>>
  /\ UNCHANGED callVars

\* CONNINFO_STORE: first dereference; the closure starts by reading CONFIG
ForceStore ==
  /\ Force("CONNINFO_STORE")
  /\ storePc' = "config"
  /\ UNCHANGED <<cfgVars, probeVars, tunnelVars, taskVars>>
  /\ UNCHANGED callVars

\* let (common, auth, exit_host) = match CONFIG.deref() { ... }
StoreReadConfig ==
  /\ storePc = "config"
  /\ lazy["CONFIG"] = "done"
  /\ storePc' = "try"
  /\ UNCHANGED <<cfgVars, cellVars, probeVars, tunnelVars, taskVars>>
  /\ UNCHANGED callVars

\* a closure that gives up on the first Err (unwrap where the loop has match)
AfterStoreErrGivesUp == "failed"

\* Err(err) => log::warn!(..): the loop body goes on to the 1 s Timer
AfterStoreErr == "sleep"

\* match get_conninfo_store(common, auth, &exit_host).await
\*   Ok(val) => return val,  Err(err) => log::warn!(..)
StoreTry ==
  /\ storePc = "try"
  /\ \E ok \in BOOLEAN :
       IF ok THEN storePc' = "idle" /\ Publish("CONNINFO_STORE")
             ELSE storePc' = AfterStoreErr /\ UNCHANGED cellVars
  /\ UNCHANGED <<cfgVars, probeVars, tunnelVars, taskVars>>
  /\ UNCHANGED callVars

\* smol::Timer::after(Duration::from_secs(1)).await; then the loop repeats
StoreRetry ==
  /\ storePc = "sleep"
  /\ storePc' = "try"
  /\ UNCHANGED <<cfgVars, cellVars, probeVars, tunnelVars, taskVars>>
  /\ UNCHANGED callVars

\* SHOULD_USE_BRIDGES: first dereference starts the probe
ForceBridges ==
  /\ Force("SHOULD_USE_BRIDGES")
  /\ probePc' = "probe"
  /\ UNCHANGED <<probe, useBridges>>
  /\ UNCHANGED <<cfgVars, storeVars, tunnelVars, taskVars>>
  /\ UNCHANGED callVars

\* let is_china = test_china().timeout(Duration::from_secs(2)).await;
\* None is "timeout", Some(Err(_)) is "error", Some(Ok(true)) is "hostile",
\* Some(Ok(false)) is "clear"
ProbeReturns ==
  /\ probePc = "probe"
  /\ \E is_china \in ProbeOutcomes : probe' = is_china
  /\ probePc' = "match"
  /\ UNCHANGED useBridges
  /\ UNCHANGED <<cfgVars, cellVars, storeVars, tunnelVars, taskVars>>
  /\ UNCHANGED callVars

\* a probe that fails open: without an answer the user's setting decides
MatchProbeFailOpen(is_china, cc) ==
  CASE is_china = "hostile" -> TRUE
    [] OTHER -> cc.use_bridges

\* a decision that lets the user's setting win over a hostile answer
MatchProbeUserWins(is_china, cc) ==
  CASE is_china \in {"error", "timeout"} -> TRUE
    [] OTHER -> cc.use_bridges

\* match is_china { Some(Err(_)) | None => true, Some(Ok(true)) => true,
\*                  _ => CONNECT_CONFIG.use_bridges }
MatchProbe(is_china, cc) ==
  CASE is_china \in {"error", "timeout"} -> TRUE
    [] is_china = "hostile" -> TRUE
    [] OTHER -> cc.use_bridges

ProbeMatch ==
  /\ probePc = "match"
  /\ probe = "clear" => lazy["CONNECT_CONFIG"] = "done"
  /\ useBridges' = MatchProbe(probe, connectConfig)
  /\ probePc' = "idle"
  /\ Publish("SHOULD_USE_BRIDGES")
  /\ UNCHANGED probe
  /\ UNCHANGED <<cfgVars, storeVars, tunnelVars, taskVars>>
  /\ UNCHANGED callVars

\* TUNNEL: first dereference; the closure starts by reading CONNECT_CONFIG
ForceTunnel ==
  /\ Force("TUNNEL")
  /\ tunnelPc' = "config"
  /\ UNCHANGED tunnel
  /\ UNCHANGED <<cfgVars, storeVars, probeVars, taskVars>>
  /\ UNCHANGED callVars

\* an endpoint block that never takes the override branch
HasOverrideIgnored(cc) == FALSE

\* if let Some(override_url) = CONNECT_CONFIG.override_connect.clone()
HasOverride(cc) == cc.override_connect # NoUrl

\* the value of the `endpoint` block of TUNNEL
Endpoint(cc, bridges) ==
  IF HasOverride(cc) THEN Independent(cc.override_connect)
                     ELSE Binder(bridges)

\* the override branch builds the tunnel at once; the other branch goes on
\* to CONNINFO_STORE.clone()
TunnelReadConfig ==
  /\ tunnelPc = "config"
  /\ lazy["CONNECT_CONFIG"] = "done"
  /\ IF HasOverride(connectConfig)
       THEN /\ tunnel' = Endpoint(connectConfig, useBridges)
            /\ tunnelPc' = "idle"
            /\ Publish("TUNNEL")
       ELSE /\ tunnelPc' = "cstore"
            /\ UNCHANGED <<tunnel, cellVars>>
  /\ UNCHANGED <<cfgVars, storeVars, probeVars, taskVars>>
  /\ UNCHANGED callVars

\* cstore: CONNINFO_STORE.clone()
TunnelReadStore ==
  /\ tunnelPc = "cstore"
  /\ lazy["CONNINFO_STORE"] = "done"
  /\ tunnelPc' = "bridges"
  /\ UNCHANGED <<tunnel, cfgVars, cellVars, storeVars, probeVars, taskVars>>
  /\ UNCHANGED callVars

\* use_bridges: *SHOULD_USE_BRIDGES, then ClientTunnel::new(endpoint, ..)
TunnelBuild ==
  /\ tunnelPc = "bridges"
  /\ lazy["SHOULD_USE_BRIDGES"] = "done"
  /\ tunnel' = Endpoint(connectConfig, useBridges)
  /\ tunnelPc' = "idle"
  /\ Publish("TUNNEL")
  /\ UNCHANGED <<cfgVars, storeVars, probeVars, taskVars>>
  /\ UNCHANGED callVars

\* ------------------------------------------------------- CONNECT_TASK
\* start_main_connect: Lazy::force(&CONNECT_TASK) spawns the task once
start_main_connect ==
  /\ pc = "unspawned"
  /\ pc' = "log"
  /\ UNCHANGED <<http, socks5, dns, refresh, fwd>>
  /\ UNCHANGED <<cfgVars, cellVars, storeVars, probeVars, tunnelVars>>
  /\ UNCHANGED callVars

\* log::info!("connect mode starting: ..", CONNECT_CONFIG.exit_server, ..)
ConnectLog ==
  /\ pc = "log"
  /\ lazy["CONNECT_CONFIG"] = "done"
  /\ pc' = "http"
  /\ UNCHANGED <<http, socks5, dns, refresh, fwd>>
  /\ UNCHANGED <<cfgVars, cellVars, storeVars, probeVars, tunnelVars>>
  /\ UNCHANGED callVars

\* let _socks2h = smolscale::spawn(Compat::new(socks2http::run_tokio(..)))
SpawnHttp ==
  /\ pc = "http"
  /\ http' = "running"
  /\ pc' = "socks5"
  /\ UNCHANGED <<socks5, dns, refresh, fwd>>
  /\ UNCHANGED <<cfgVars, cellVars, storeVars, probeVars, tunnelVars>>
  /\ UNCHANGED callVars

\* let socks5_fut = smolscale::spawn(socks5::socks5_loop(..))
SpawnSocks5 ==
  /\ pc = "socks5"
  /\ socks5' = "running"
  /\ pc' = "dns"
  /\ UNCHANGED <<http, dns, refresh, fwd>>
  /\ UNCHANGED <<cfgVars, cellVars, storeVars, probeVars, tunnelVars>>
  /\ UNCHANGED callVars

\* let dns_fut = smolscale::spawn(dns::dns_loop(..))
SpawnDns ==
  /\ pc = "dns"
  /\ dns' = "running"
  /\ pc' = "refresh"
  /\ UNCHANGED <<http, socks5, refresh, fwd>>
  /\ UNCHANGED <<cfgVars, cellVars, storeVars, probeVars, tunnelVars>>
  /\ UNCHANGED callVars

\* let refresh_fut = smolscale::spawn(async { loop { .. } }): spawned for
\* every configuration; its first step dereferences CONNINFO_STORE
SpawnRefresh ==
  /\ pc = "refresh"
  /\ refresh' = "store"
  /\ pc' = "forwarders"
  /\ UNCHANGED <<http, socks5, dns, fwd>>
  /\ UNCHANGED <<cfgVars, cellVars, storeVars, probeVars, tunnelVars>>
  /\ UNCHANGED callVars

\* CONNECT_CONFIG.forward_ports.iter().map(|v| smolscale::spawn(
\*   port_forwarder::port_forwarder(v.clone()))).collect(): one task per
\* entry, each handed its entry as the unparsed String
SpawnForwarders ==
  /\ pc = "forwarders"
  /\ fwd' = [i \in 1..Len(connectConfig.forward_ports) |-> "spawned"]
  /\ pc' = IF fwd' = <<>> THEN "stats" ELSE "await_fwd"
  /\ UNCHANGED <<http, socks5, dns, refresh>>
  /\ UNCHANGED <<cfgVars, cellVars, storeVars, probeVars, tunnelVars>>
  /\ UNCHANGED callVars

\* a forwarder task that has come to its end
Ended(f) == f \in {"terminated", "rejected"}

\* the forwarders not awaited at all
SelectAllSkipped(f) == TRUE

\* select_all(port_forwarders) completes with the first forwarder that ends
SelectAllReady(f) == \E i \in DOMAIN f : Ended(f[i])

\* the remaining handles detached instead of dropped
DropHandlesDetaches(f) == f

\* the result of select_all, with the handles of the remaining tasks, is
\* dropped at the end of the statement, and dropping a smol Task cancels it
DropHandles(f) ==
  [i \in DOMAIN f |-> IF Ended(f[i]) THEN f[i] ELSE "cancelled"]

\* smolscale::spawn(select_all(port_forwarders)).await;
AwaitForwarders ==
  /\ pc = "await_fwd"
  /\ SelectAllReady(fwd)
  /\ fwd' = DropHandles(fwd)
  /\ pc' = "stats"
  /\ UNCHANGED <<http, socks5, dns, refresh>>
  /\ UNCHANGED <<cfgVars, cellVars, storeVars, probeVars, tunnelVars>>
  /\ UNCHANGED callVars

\* Lazy::force(&stats::STATS_THREAD)
StartStats ==
  /\ pc = "stats"
  /\ pc' = "vpn"
  /\ UNCHANGED <<http, socks5, dns, refresh, fwd>>
  /\ UNCHANGED <<cfgVars, cellVars, storeVars, probeVars, tunnelVars>>
  /\ UNCHANGED callVars

\* Lazy::force(&vpn::VPN_SHUFFLE_TASK)
StartVpn ==
  /\ pc = "vpn"
  /\ pc' = "race"
  /\ UNCHANGED <<http, socks5, dns, refresh, fwd>>
  /\ UNCHANGED <<cfgVars, cellVars, storeVars, probeVars, tunnelVars>>
  /\ UNCHANGED callVars

\* socks5_fut.race(dns_fut).race(refresh_fut): the three handles the race
\* polls; _socks2h is not among them
RaceOver ==
  \/ socks5 = "terminated"
  \/ dns = "terminated"
  \/ refresh \in {"terminated", "panicked"}

\* .await.unwrap(); panic!("something died")
RaceCompletes ==
  /\ pc = "race"
  /\ RaceOver
  /\ pc' = "panicked"
  /\ UNCHANGED <<http, socks5, dns, refresh, fwd>>
  /\ UNCHANGED <<cfgVars, cellVars, storeVars, probeVars, tunnelVars>>
  /\ UNCHANGED callVars

\* ------------------------------------------------------- the refresh task
\* CONNINFO_STORE.refresh(): the call starts once the cell is initialised
RefreshCall ==
  /\ refresh = "store"
  /\ lazy["CONNINFO_STORE"] = "done"
  /\ refresh' = "refreshing"
  /\ UNCHANGED <<pc, http, socks5, dns, fwd>>
  /\ UNCHANGED <<cfgVars, cellVars, storeVars, probeVars, tunnelVars>>
  /\ UNCHANGED callVars

\* a loop body that propagates the error (refresh().await?), ending the task
AfterRefreshPropagates(result) == IF result = "err" THEN "terminated" ELSE "sleep"

\* if let Err(err) = CONNINFO_STORE.refresh().await { log::warn!(..) }: an
\* error is logged ("warned"); both results go on to the Timer
AfterRefresh(result) == IF result = "err" THEN "warned" ELSE "sleep"

\* DirectoryClient.fetch is over and refresh() returns Ok or Err
RefreshReturns ==
  /\ refresh = "fetching"
  /\ \E result \in {"ok", "err"} : refresh' = AfterRefresh(result)
  /\ UNCHANGED <<pc, http, socks5, dns, fwd>>
  /\ UNCHANGED <<cfgVars, cellVars, storeVars, probeVars, tunnelVars>>
  /\ UNCHANGED callVars

\* the ways get_creds can come out for the logins and key files that a
\* configuration with this auth_kind can run with
CredsOutcomes(cc) ==
  {GetCreds(login[1], login[2]).out :
     login \in {l \in AuthValues \X FileMaps : l[1].tag = cc.auth_kind}}

\* where the refresh task stands once get_creds is through: a panic unwinds
\* the task, an error is the Err of refresh(), credentials go to the fetch
AfterCreds(out) ==
  CASE out = "panic" -> "panicked"
    [] out = "err" -> AfterRefresh("err")
    [] OTHER -> "fetching"

\* refresh() first derives the credentials with get_creds
RefreshDerives ==
  /\ refresh = "refreshing"
  /\ \E out \in CredsOutcomes(config) : refresh' = AfterCreds(out)
  /\ UNCHANGED <<pc, http, socks5, dns, fwd>>
  /\ UNCHANGED <<cfgVars, cellVars, storeVars, probeVars, tunnelVars>>
  /\ UNCHANGED callVars

\* after the warning the loop body goes on to the Timer
RefreshWarned ==
  /\ refresh = "warned"
  /\ refresh' = "sleep"
  /\ UNCHANGED <<pc, http, socks5, dns, fwd>>
  /\ UNCHANGED <<cfgVars, cellVars, storeVars, probeVars, tunnelVars>>
  /\ UNCHANGED callVars

\* smol::Timer::after(Duration::from_secs(120)).await; then the loop repeats
RefreshWakes ==
  /\ refresh = "sleep"
  /\ refresh' = "store"
  /\ UNCHANGED <<pc, http, socks5, dns, fwd>>
  /\ UNCHANGED <<cfgVars, cellVars, storeVars, probeVars, tunnelVars>>
  /\ UNCHANGED callVars

\* ---------------------------------------------------------- the subtasks
\* socks2http::run_tokio comes to an end
HttpEnds ==
  /\ http = "running"
  /\ http' = "terminated"
  /\ UNCHANGED <<pc, socks5, dns, refresh, fwd>>
  /\ UNCHANGED <<cfgVars, cellVars, storeVars, probeVars, tunnelVars>>
  /\ UNCHANGED callVars

\* socks5_loop comes to an end
Socks5Ends ==
  /\ socks5 = "running"
  /\ socks5' = "terminated"
  /\ UNCHANGED <<pc, http, dns, refresh, fwd>>
  /\ UNCHANGED <<cfgVars, cellVars, storeVars, probeVars, tunnelVars>>
  /\ UNCHANGED callVars

\* dns_loop comes to an end
DnsEnds ==
  /\ dns = "running"
  /\ dns' = "terminated"
  /\ UNCHANGED <<pc, http, socks5, refresh, fwd>>
  /\ UNCHANGED <<cfgVars, cellVars, storeVars, probeVars, tunnelVars>>
  /\ UNCHANGED callVars

\* port_forwarder(desc) parses its entry when the task first runs
FwdParses(i) ==
  /\ fwd[i] = "spawned"
  /\ fwd' = [fwd EXCEPT ![i] = IF connectConfig.forward_ports[i] = "ok"
                                 THEN "running" ELSE "rejected"]
  /\ UNCHANGED <<pc, http, socks5, dns, refresh>>
  /\ UNCHANGED <<cfgVars, cellVars, storeVars, probeVars, tunnelVars>>
  /\ UNCHANGED callVars

\* a running forwarder comes to an end
FwdEnds(i) ==
  /\ fwd[i] = "running"
  /\ fwd' = [fwd EXCEPT ![i] = "terminated"]
  /\ UNCHANGED <<pc, http, socks5, dns, refresh>>
  /\ UNCHANGED <<cfgVars, cellVars, storeVars, probeVars, tunnelVars>>
  /\ UNCHANGED callVars

\* ------------------------------------------------------- specification
ConnectStep ==
  \/ ConnectLog \/ SpawnHttp \/ SpawnSocks5 \/ SpawnDns \/ SpawnRefresh
  \/ SpawnForwarders \/ AwaitForwarders \/ StartStats \/ StartVpn
  \/ RaceCompletes

CellStep ==
  \/ ForceConfig \/ InitConfig \/ ForceConnectConfig \/ InitConnectConfig
  \/ ForceStore \/ StoreReadConfig \/ StoreTry \/ StoreRetry
  \/ ForceBridges \/ ProbeReturns \/ ProbeMatch
  \/ ForceTunnel \/ TunnelReadConfig \/ TunnelReadStore \/ TunnelBuild

RefreshStep ==
  \/ RefreshCall \/ RefreshDerives \/ RefreshReturns \/ RefreshWarned
  \/ RefreshWakes

\* "panicked" is the last position of CONNECT_TASK; what the other tasks do
\* until the process is gone reaches no state that they cannot reach before
Next ==
  \/ \E opt \in OverrideOpts : override_config(opt)
  \/ start_main_connect
  \/ ConnectStep
  \/ CellStep
  \/ RefreshStep
  \/ HttpEnds \/ Socks5Ends \/ DnsEnds
  \/ \E i \in DOMAIN fwd : FwdParses(i)
  \/ \E i \in DOMAIN fwd : FwdEnds(i)

Spec == Init /\ [][Next]_vars

\* the executor runs every task that can take a step; when a subtask comes
\* to its end is up to the network and is not forced
FairSpec ==
  /\ Spec
  /\ WF_vars(start_main_connect)
  /\ WF_vars(ConnectStep)
  /\ WF_vars(CellStep)
  /\ WF_vars(RefreshStep)
  /\ WF_vars(\E i \in DOMAIN fwd : FwdParses(i))

\* ------------------------------------ get_conninfo_store of config.rs
\* create_dir_all left out
CreateDirAllSkipped(existing, path) == existing

\* std::fs::create_dir_all: the directory and every missing parent
CreateDirAll(existing, path) ==
  existing \cup {SubSeq(path, 1, n) : n \in 1..Len(path)}

GcsCalls ==
  [fn : {"get_conninfo_store"}, credential_cache : CacheRoots,
   auth_kind : AuthValues, files : FileMaps]

\* get_conninfo_store up to dbpath.push(&user_cache_key)
GcsStart ==
  /\ call.fn = "get_conninfo_store"
  /\ ret = NoRet
  /\ ret' = [pc |-> "create_dir",
             dbpath |-> <<call.credential_cache,
                          user_cache_key(call.auth_kind)>>,
             opened |-> <<>>]
  /\ UNCHANGED <<call, dirs>>
  /\ UNCHANGED <<cfgVars, cellVars, storeVars, probeVars, tunnelVars, taskVars>>

\* std::fs::create_dir_all(&dbpath)?
GcsCreateDir ==
  /\ call.fn = "get_conninfo_store"
  /\ ret.pc = "create_dir"
  /\ \E ok \in BOOLEAN :
       IF ok \/ ret.dbpath \in dirs
       THEN /\ dirs' = CreateDirAll(dirs, ret.dbpath)
            /\ ret' = [ret EXCEPT !.pc = "push"]
       ELSE /\ dirs' = dirs
            /\ ret' = [ret EXCEPT !.pc = "err"]
  /\ UNCHANGED call
  /\ UNCHANGED <<cfgVars, cellVars, storeVars, probeVars, tunnelVars, taskVars>>

\* dbpath.push("conninfo.json")
GcsPush ==
  /\ call.fn = "get_conninfo_store"
  /\ ret.pc = "push"
  /\ ret' = [ret EXCEPT !.pc = "connect",
                        !.dbpath = Append(ret.dbpath, "conninfo.json")]
  /\ UNCHANGED <<call, dirs>>
  /\ UNCHANGED <<cfgVars, cellVars, storeVars, probeVars, tunnelVars, taskVars>>

\* ConnInfoStore::connect(&dbpath, ..).await?
GcsConnect ==
  /\ call.fn = "get_conninfo_store"
  /\ ret.pc = "connect"
  /\ \E ok \in BOOLEAN :
       ret' = [ret EXCEPT !.pc = IF ok THEN "ok" ELSE "err",
                          !.opened = ret.dbpath]
  /\ UNCHANGED <<call, dirs>>
  /\ UNCHANGED <<cfgVars, cellVars, storeVars, probeVars, tunnelVars, taskVars>>

\* the directories that exist when get_conninfo_store is called: none, the
\* cache root, or the root with this user's subdirectory
DirsBefore(c) ==
  IF c.fn = "get_conninfo_store"
  THEN {{}, {<<c.credential_cache>>},
        CreateDirAll({}, <<c.credential_cache, user_cache_key(c.auth_kind)>>)}
  ELSE {{}}

\* ------------------------------------------------- VpnMode of config.rs
\* enum VpnMode
VpnModes == {"InheritedFd", "TunNoRoute", "TunRoute", "WinDivert", "Stdio"}
\* values of --vpn-mode on a command line: the documented ones and others
VpnArgs ==
  {"inherited-fd", "tun-no-route", "tun-route", "windivert", "stdio",
   "", "none", "tun", "route", "TUN-ROUTE", "Stdio", "tun_route",
   "inherited_fd", "win-divert", "stdio ", " stdio", "tun-route,stdio",
   "tun-noroute", "wintun", "InheritedFd"}

\* a parser that also takes "tun" for tun-route
from_str_alias(x) ==
  CASE x = "inherited-fd" -> [tag |-> "Ok", val |-> "InheritedFd"]
    [] x = "tun-no-route" -> [tag |-> "Ok", val |-> "TunNoRoute"]
    [] x \in {"tun-route", "tun"} -> [tag |-> "Ok", val |-> "TunRoute"]
    [] x = "windivert" -> [tag |-> "Ok", val |-> "WinDivert"]
    [] x = "stdio" -> [tag |-> "Ok", val |-> "Stdio"]
    [] OTHER -> [tag |-> "Err", val |-> "unrecognized VPN mode"]

\* <VpnMode as FromStr>::from_str
from_str(x) ==
  CASE x = "inherited-fd" -> [tag |-> "Ok", val |-> "InheritedFd"]
    [] x = "tun-no-route" -> [tag |-> "Ok", val |-> "TunNoRoute"]
    [] x = "tun-route" -> [tag |-> "Ok", val |-> "TunRoute"]
    [] x = "windivert" -> [tag |-> "Ok", val |-> "WinDivert"]
    [] x = "stdio" -> [tag |-> "Ok", val |-> "Stdio"]
    [] OTHER -> [tag |-> "Err", val |-> "unrecognized VPN mode"]

\* --vpn-mode is left out of the command line or given with a value
VpnCalls ==
  {[fn |-> "vpn_mode", given |-> FALSE, arg |-> ""]}
    \cup [fn : {"vpn_mode"}, given : {TRUE}, arg : VpnArgs]

\* vpn_mode: Option<VpnMode> as the command line parser fills it: None
\* without the option, Some(mode) when from_str accepts the value, and no
\* options at all when it does not
ParseVpnMode ==
  /\ call.fn = "vpn_mode"
  /\ ret = NoRet
  /\ ret' = IF ~call.given
            THEN [pc |-> "done", vpn_mode |-> [tag |-> "None", val |-> ""]]
            ELSE LET parsed == from_str(call.arg)
                 IN  IF parsed.tag = "Ok"
                     THEN [pc |-> "done",
                           vpn_mode |-> [tag |-> "Some", val |-> parsed.val]]
                     ELSE [pc |-> "usage_error", vpn_mode |-> parsed]
  /\ UNCHANGED <<call, dirs>>
  /\ UNCHANGED <<cfgVars, cellVars, storeVars, probeVars, tunnelVars, taskVars>>

\* ---------------------------------------- get_binder_client of config.rs
\* most entries in --binder-http-fronts and in --binder-http-hosts
MaxEntries == 3
\* the byte of ","
Comma == 44
\* front URLs "", "f", "g" and hosts "", "h", "i": entries without a comma
FrontUrls == {<<>>, <<102>>, <<103>>}
HostNames == {<<>>, <<104>>, <<105>>}
EntryLists(entries) == UNION {[1..n -> entries] : n \in 1..MaxEntries}

\* the option value a user writes for a list of entries
RECURSIVE JoinCommas(_)
JoinCommas(list) ==
  IF Len(list) = 1 THEN list[1]
  ELSE list[1] \o <<Comma>> \o JoinCommas(Tail(list))

\* str.split(','): the pieces between the commas, empty ones included
RECURSIVE Split(_)
Split(str) ==
  IF \A k \in DOMAIN str : str[k] # Comma THEN <<str>>
  ELSE LET k == CHOOSE k \in DOMAIN str :
                  str[k] = Comma /\ \A j \in 1..(k - 1) : str[j] # Comma
       IN  <<SubSeq(str, 1, k - 1)>> \o Split(SubSeq(str, k + 1, Len(str)))

\* a zip that pads the shorter side with empty strings
ZipPadded(xs, ys) ==
  [k \in 1..(IF Len(xs) > Len(ys) THEN Len(xs) ELSE Len(ys)) |->
     <<IF k <= Len(xs) THEN xs[k] ELSE <<>>,
       IF k <= Len(ys) THEN ys[k] ELSE <<>> >>]

\* Iterator::zip: pairs until either side runs out
Zip(xs, ys) ==
  [k \in 1..(IF Len(xs) < Len(ys) THEN Len(xs) ELSE Len(ys)) |->
     <<xs[k], ys[k]>>]

\* parse_fronts builds the fallback list of the client from the pairs, in
\* the order in which it is given them
ParseFronts(pairs) == pairs

BinderCalls ==
  {[fn |-> "get_binder_client",
    front_list |-> fl, host_list |-> hl,
    binder_http_fronts |-> JoinCommas(fl),
    binder_http_hosts |-> JoinCommas(hl)] :
     fl \in EntryLists(FrontUrls), hl \in EntryLists(HostNames)}

\* CommonOpt::get_binder_client
get_binder_client ==
  /\ call.fn = "get_binder_client"
  /\ ret = NoRet
  /\ ret' = [pc |-> "done",
             fronts |-> ParseFronts(Zip(Split(call.binder_http_fronts),
                                        Split(call.binder_http_hosts)))]
  /\ UNCHANGED <<call, dirs>>
  /\ UNCHANGED <<cfgVars, cellVars, storeVars, probeVars, tunnelVars, taskVars>>

Calls == GcsCalls \cup VpnCalls \cup BinderCalls

\* one call of a function of config.rs, the statics untouched
CallInit ==
  /\ StaticsInit
  /\ call \in Calls
  /\ ret = NoRet
  /\ dirs \in DirsBefore(call)

CallNext ==
  \/ GcsStart
  \/ GcsCreateDir
  \/ GcsPush
  \/ GcsConnect
  \/ ParseVpnMode
  \/ get_binder_client

CallSpec == CallInit /\ [][CallNext]_vars

\* ------------------------------------------------------------- shorthands
Done(c) == lazy[c] = "done"
Overridden == Done("CONNECT_CONFIG") /\ connectConfig.override_connect \in URLs
HasMalformedEntry ==
  /\ Done("CONNECT_CONFIG")
  /\ \E i \in DOMAIN connectConfig.forward_ports :
       connectConfig.forward_ports[i] = "bad"
NetworkTaskSpawned ==
  http # "none" \/ socks5 # "none" \/ dns # "none" \/ refresh # "none"

\* ------------------------------------------------------------------ claims
\* C1: whenever the censorship probe times out or returns an error, the
\* memoized SHOULD_USE_BRIDGES is true, whatever the user's use_bridges is
C1_ProbeFailureForcesBridges ==
  (Done("SHOULD_USE_BRIDGES") /\ probe \in {"timeout", "error"}) => useBridges = TRUE

\* C1 witness: the probe timed out, the user had bridges off, and the
\* decision is memoized
C1_Witness ==
  /\ Done("SHOULD_USE_BRIDGES")
  /\ probe = "timeout"
  /\ connectConfig.use_bridges = FALSE

\* C2: bridges are on when the user enabled them, on when the probe reports
\* a hostile network, and off only when the probe completed with "not
\* hostile" and the user's use_bridges is false; the tunnel's Binder
\* parameters carry that decision
C2_BridgeDecisionTable ==
  /\ Done("SHOULD_USE_BRIDGES") =>
       /\ connectConfig.use_bridges => useBridges
       /\ probe = "hostile" => useBridges
       /\ ~useBridges <=> (probe = "clear" /\ ~connectConfig.use_bridges)
  /\ tunnel.kind = "Binder" =>
       tunnel.use_bridges = ~(probe = "clear" /\ ~connectConfig.use_bridges)

\* C2 witness: the user disabled bridges, the probe answered hostile, and the
\* tunnel was built with bridges on
C2_Witness ==
  /\ tunnel.kind = "Binder"
  /\ probe = "hostile"
  /\ connectConfig.use_bridges = FALSE
  /\ tunnel.use_bridges = TRUE

\* C3: with an override URL the tunnel's endpoint is exactly
\* Independent{endpoint: that URL}; the TUNNEL closure never goes on to the
\* credential store, the probe is never run, and the endpoint does not depend
\* on the bridge decision
C3_OverrideIsIndependent ==
  Overridden =>
    /\ tunnelPc \notin {"cstore", "bridges"}
    /\ lazy["SHOULD_USE_BRIDGES"] = "uninit" /\ probe = "none"
    /\ Done("TUNNEL") =>
         /\ tunnel = Independent(connectConfig.override_connect)
         /\ \A b \in BOOLEAN : Endpoint(connectConfig, b) = tunnel

\* C3 witness: the tunnel was built from an override URL
C3_Witness ==
  /\ Overridden
  /\ Done("TUNNEL")
  /\ tunnel.kind = "Independent"

\* C4: with an override URL no credential store is constructed and no
\* refresh is attempted: CONNINFO_STORE stays uninitialised and the refresh
\* task never reaches the refresh() call
C4_OverrideDisablesAuth ==
  Overridden =>
    /\ lazy["CONNINFO_STORE"] = "uninit"
    /\ refresh \notin {"refreshing", "fetching", "warned", "sleep", "panicked"}

\* C5: once the HTTP proxy, the SOCKS5 loop or the DNS loop has terminated,
\* the connect task eventually panics
C5_SubtaskDeathIsFatal ==
  (http = "terminated" \/ socks5 = "terminated" \/ dns = "terminated")
    ~> (pc = "panicked")

\* C6: a refresh() that returns, with an error or not, leaves the refresh
\* loop alive: the loop goes on to the 120 s timer and from there to the
\* next refresh() call; the task never ends by returning, so the race and
\* the fatal state are reached only through socks5, dns or a panic
C6_RefreshNeverEscalates ==
  /\ [](refresh # "terminated")
  /\ []((pc = "panicked") =>
          (socks5 = "terminated" \/ dns = "terminated" \/ refresh = "panicked"))
  /\ [][/\ refresh = "refreshing" =>
             refresh' \in {"refreshing", "fetching", "panicked"}
        /\ refresh = "fetching" =>
             refresh' \in {"fetching", "warned", "sleep"}
        /\ refresh = "warned" => refresh' \in {"warned", "sleep"}
        /\ refresh = "sleep" => refresh' \in {"sleep", "store"}
        /\ (refresh = "store" /\ Done("CONNINFO_STORE")) =>
             refresh' \in {"store", "refreshing"}]_vars

\* C6 witness: a refresh error was logged while the connect task supervises
\* the race and both proxies are still running
C6_Witness ==
  /\ refresh = "warned"
  /\ pc = "race"
  /\ socks5 = "running" /\ dns = "running"

\* C7: a configuration with a malformed forward_ports entry is rejected
\* before any network task is spawned, so with such an entry no HTTP proxy,
\* SOCKS5, DNS or refresh task ever exists; and no entry is first parsed
\* when one of these tasks has already been spawned
C7_ParsedBeforeSpawn ==
  /\ []((HasMalformedEntry /\ pc # "unspawned") => ~NetworkTaskSpawned)
  /\ [][\A i \in DOMAIN fwd :
          (fwd[i] = "spawned" /\ fwd'[i] \in {"running", "rejected"})
            => ~NetworkTaskSpawned]_vars

\* C8: the closures of CONFIG, CONNINFO_STORE and TUNNEL are started at most
\* once, also with several accessors waiting on the same cell; a published
\* value and the content of INIT_CONFIG never change, whatever
\* override_config call follows
C8_InitOnceImmutable ==
  /\ [](\A c \in {"CONFIG", "CONNINFO_STORE", "TUNNEL"} : runs[c] <= 1)
  /\ [](Done("CONFIG") => config = initConfig)
  /\ [][/\ \A c \in Cells : Done(c) => lazy'[c] = "done"
        /\ Done("CONFIG") => config' = config
        /\ Done("TUNNEL") => tunnel' = tunnel
        /\ initConfig # NoOpt => initConfig' = initConfig]_vars

\* C8 witness: the refresh task and the TUNNEL closure wait on the credential
\* store while its closure is running, after two override_config calls
C8_Witness ==
  /\ lazy["CONNINFO_STORE"] = "running"
  /\ runs["CONNINFO_STORE"] = 1
  /\ refresh = "store"
  /\ tunnelPc = "cstore"
  /\ Len(earlyOverrides) = 2

C10_AnyEarlyOverrideWins ==
  \A i \in 1..Len(earlyOverrides) :
    /\ fromArgs = 0
    /\ Done("CONFIG") => config = earlyOverrides[i]

\* C10 amended: the first override_config(opt), when it completed before
\* CONFIG was first referenced, makes every read of CONFIG return opt, and
\* the command line is never parsed
C10_FirstEarlyOverrideWins ==
  Len(earlyOverrides) >= 1 =>
    /\ fromArgs = 0
    /\ Done("CONFIG") => config = earlyOverrides[1]
    /\ Done("CONNECT_CONFIG") => connectConfig = earlyOverrides[1]

\* C10 witness: two override_config calls with different arguments before
\* the first reference, and CONFIG reads as the first
C10_Witness ==
  /\ Len(earlyOverrides) = 2
  /\ earlyOverrides[1] # earlyOverrides[2]
  /\ Done("CONFIG")
  /\ config = earlyOverrides[1]

\* the credentials get_creds would hand out exist: a password pair always,
\* a keypair when the key file holds a signing key
HasIdentity(a, files) ==
  a.tag = "AuthKeypair" => files[a.sk_path] \in SecretKeys
\* two logins are the same identity: the same username and password, or
\* the same signing key
SameIdentity(a1, files1, a2, files2) ==
  /\ a1.tag = a2.tag
  /\ IF a1.tag = "AuthPassword"
     THEN a1.username = a2.username /\ a1.password = a2.password
     ELSE files1[a1.sk_path] = files2[a2.sk_path]

\* C11: the subdirectory get_conninfo_store derives for an identity is the
\* subdirectory of another login exactly when that login is the same
\* identity: distinct password pairs or signing keypairs get distinct
\* subdirectories, and the same identity always gets the same one.
C11_SubdirIsInjectiveInIdentity ==
  (call.fn = "get_conninfo_store" /\ ret.pc # "none"
     /\ HasIdentity(call.auth_kind, call.files))
    => \A a \in AuthValues, files \in FileMaps :
         HasIdentity(a, files)
           => (SameIdentity(a, files, call.auth_kind, call.files)
                 <=> user_cache_key(a) = ret.dbpath[2])

\* the store has been opened at root / hex(hash(serialized identity)) / file
\* and the directory part of that path exists
StoreOpenedAt(file) ==
  LET dir == <<call.credential_cache,
               HexEncode(Blake3(Stdcode(call.auth_kind)))>>
  IN  /\ ret.opened = Append(dir, file)
      /\ dir \in dirs

C13_KeyFailureIsFatal ==
  /\ [][/\ refresh = "panicked" => refresh' = "panicked"
        /\ (refresh' = "panicked" /\ refresh # "panicked") =>
             (refresh = "refreshing" /\ config.auth_kind = "AuthKeypair")
        /\ (refresh' = "warned" /\ refresh # "warned") => refresh = "fetching"
        /\ refresh = "fetching" =>
             refresh' \in {"fetching", "warned", "sleep"}
        /\ (storePc' = "sleep" /\ storePc # "sleep") => storePc = "try"]_vars
  /\ [](refresh = "panicked" => Done("CONNINFO_STORE"))

\* the refresh task of a keypair login has panicked in get_creds
C13_Witness ==
  /\ refresh = "panicked"
  /\ config.auth_kind = "AuthKeypair"
  /\ storePc = "idle"

\* the mode that belongs to each of the five mode strings
ModeNamed(x) ==
  CASE x = "inherited-fd" -> "InheritedFd"
    [] x = "tun-no-route" -> "TunNoRoute"
    [] x = "tun-route" -> "TunRoute"
    [] x = "windivert" -> "WinDivert"
    [] x = "stdio" -> "Stdio"

C15_StoreOpenIsRetried ==
  /\ [](storePc \in {"idle", "config", "try", "sleep"})
  /\ [](storePc = "sleep" => lazy["CONNINFO_STORE"] = "running")
  /\ [](~Done("CONNINFO_STORE") => refresh \in {"none", "store"})
  /\ [][/\ storePc = "sleep" => storePc' \in {"sleep", "try"}
        /\ (Done("CONNINFO_STORE")' /\ ~Done("CONNINFO_STORE")) =>
             (storePc = "try" /\ storePc' = "idle")
        /\ (refresh = "store" /\ refresh' # "store") => Done("CONNINFO_STORE")
        /\ (tunnelPc = "cstore" /\ tunnelPc' # "cstore") =>
             Done("CONNINFO_STORE")
        /\ (~Done("CONNINFO_STORE") /\ pc # "panicked") =>
             (pc' # "panicked" \/ socks5 = "terminated" \/ dns = "terminated")
       ]_vars

\* an attempt has failed and the closure pauses, with the refresh task and
\* the TUNNEL closure both waiting for the cell
C15_Witness ==
  /\ storePc = "sleep"
  /\ lazy["CONNINFO_STORE"] = "running"
  /\ refresh = "store"
  /\ tunnelPc = "cstore"

\* C16: the connect task is at or past the start of the stats thread (the
\* VPN task and the race of socks5, dns and refresh come after it) only
\* when forward_ports is empty or some port forwarder has come to its end;
\* while every forwarder is still spawned or running the task stays at the
\* await of select_all.
C16_ForwardersGateStartup ==
  /\ [](pc \in {"stats", "vpn", "race", "panicked"} =>
          \/ connectConfig.forward_ports = <<>>
          \/ \E i \in DOMAIN fwd : fwd[i] \in {"terminated", "rejected"})
  /\ [][(/\ pc = "await_fwd"
         /\ \A i \in DOMAIN fwd : fwd[i] \in {"spawned", "running"})
          => pc' = "await_fwd"]_vars

\* supervision has begun after a forwarder ended
C16_Witness ==
  /\ pc = "race"
  /\ fwd # <<>>
  /\ \E i \in DOMAIN fwd : fwd[i] = "terminated"

C18_FrontsZipHosts ==
  (call.fn = "get_binder_client" /\ ret.pc # "none") =>
    LET fl == call.front_list
        hl == call.host_list
    IN  /\ ret.pc = "done"
        /\ \/ Len(ret.fronts) = Len(fl) /\ Len(fl) <= Len(hl)
           \/ Len(ret.fronts) = Len(hl) /\ Len(hl) <= Len(fl)
        /\ \A k \in DOMAIN ret.fronts : ret.fronts[k] = <<fl[k], hl[k]>>

\* two fronts were configured with one host, and the client has one pair
C18_Witness ==
  /\ call.fn = "get_binder_client"
  /\ ret.pc = "done"
  /\ Len(call.front_list) = 2
  /\ Len(call.host_list) = 1
  /\ ret.fronts = <<<<call.front_list[1], call.host_list[1]>>>>
====
